---- MODULE Spec2Model ----
(***************************************************************************)
(* Model of src/app.py, the PJUM Perdin report processor: the business-day *)
(* arithmetic, the automatic SLA/status phase, the manual-override phase   *)
(* and the script flow that composes them (load, merge, apply, finalize).  *)
(*                                                                         *)
(* Representation.                                                         *)
(*   - A calendar date is an integer day number; day 0 is a Monday, so     *)
(*     weekday(d) = d % 7 as datetime.date.weekday() (5 = Sat, 6 = Sun).   *)
(*     pd.NaT is the integer NaT below every date.                         *)
(*   - A text cell is a sequence of one-character strings; a missing text  *)
(*     cell (NaN) is the token sequence NaN, whose str() is "nan".          *)
(*   - A DataFrame is [cols |-> sequence of column names, rows |-> sequence *)
(*     of rows], a row being a function from the column names to values.   *)
(*   - Lines 160-171 of app.py are dedented by one level in the file, which *)
(*     makes it fail to compile ('return' outside function); they are read *)
(*     here as the tail of compute_sla_and_status, which is what their own *)
(*     'return df' and every caller require.                               *)
(***************************************************************************)
EXTENDS Integers, Sequences, FiniteSets, TLC

VARIABLES
  report_df,    \* the uploaded report after standardize_input_df
  holidays,     \* the holiday set built from the holidays file
  ref_date,     \* the reference date of st.date_input
  processed,    \* the frame compute_sla_and_status returned (then merged)
  df_for_edit,  \* the frame the manual changes are applied to
  final_df,     \* the frame shown and exported
  diag,         \* st.error was called by compute_sla_and_status
  applied,      \* st.button("Apply manual changes") in this script run
  pc,           \* position in the script run, or in a function call
  args,         \* arguments of a function called on its own
  result        \* its return value

vars == <<report_df, holidays, ref_date, processed, df_for_edit, final_df,
          diag, applied, pc, args, result>>

----------------------------------------------------------------------------
(* Values *)

NaT == 0 - 1

NaN == <<"NaN">>

isnat(d) == d = NaT

isnan(t) == t = NaN

str(v) == IF isnan(v) THEN <<"n", "a", "n">> ELSE v

RECURSIVE lstrip(_)
lstrip(s) == IF s # <<>> /\ Head(s) = " " THEN lstrip(Tail(s)) ELSE s

RECURSIVE rstrip(_)
rstrip(s) ==
  IF s # <<>> /\ s[Len(s)] = " " THEN rstrip(SubSeq(s, 1, Len(s) - 1)) ELSE s

strip(s) == rstrip(lstrip(s))

startswith(s, prefix) ==
  Len(s) >= Len(prefix) /\ SubSeq(s, 1, Len(prefix)) = prefix

lower_char(c) ==
  CASE c = "N" -> "n"
    [] c = "A" -> "a"
    [] c = "B" -> "b"
    [] c = "S" -> "s"
    [] c = "T" -> "t"
    [] OTHER -> c

lower(s) == [i \in 1..Len(s) |-> lower_char(s[i])]

\* All texts of length at most n over the characters cs.
RECURSIVE TextsUpTo(_, _)
TextsUpTo(cs, n) ==
  IF n = 0 THEN {<<>>}
  ELSE LET shorter == TextsUpTo(cs, n - 1)
       IN  shorter \cup {Append(t, c) : t \in shorter, c \in cs}

NoTable == [cols |-> <<>>, rows |-> <<>>]

----------------------------------------------------------------------------
(* add_business_days *)

weekday(d) == d % 7

RECURSIVE bd_loop_no_holidays(_, _, _, _)
bd_loop_no_holidays(current, added, add_days, holidays_set) ==
  IF added < add_days
  THEN LET next == current + 1
       IN  IF weekday(next) >= 5
           THEN bd_loop_no_holidays(next, added, add_days, holidays_set)
           ELSE bd_loop_no_holidays(next, added + 1, add_days, holidays_set)
  ELSE current

RECURSIVE bd_loop_counts_weekend(_, _, _, _)
bd_loop_counts_weekend(current, added, add_days, holidays_set) ==
  IF added < add_days
  THEN LET next == current + 1
       IN  IF weekday(next) >= 5
           THEN bd_loop_counts_weekend(next, added + 1, add_days, holidays_set)
           ELSE IF next \in holidays_set
                THEN bd_loop_counts_weekend(next, added, add_days, holidays_set)
                ELSE bd_loop_counts_weekend(next, added + 1, add_days, holidays_set)
  ELSE current

\* The while loop of add_business_days, one iteration per unfolding.
RECURSIVE bd_loop(_, _, _, _)
bd_loop(current, added, add_days, holidays_set) ==
  IF added < add_days
  THEN LET next == current + 1
       IN  IF weekday(next) >= 5
           THEN bd_loop(next, added, add_days, holidays_set)
           ELSE IF next \in holidays_set
                THEN bd_loop(next, added, add_days, holidays_set)
                ELSE bd_loop(next, added + 1, add_days, holidays_set)
  ELSE current

add_business_days(start_date, add_days, holidays_set) ==
  IF isnat(start_date) THEN NaT ELSE bd_loop(start_date, 0, add_days, holidays_set)

----------------------------------------------------------------------------
(* DataFrame helpers *)

HasCol(df, col) == \E i \in 1..Len(df.cols) : df.cols[i] = col

\* row.get(col, default)
get(row, col, default) == IF col \in DOMAIN row THEN row[col] ELSE default

\* df[col] = values: an existing column keeps its place, a new one is appended.
SetColumn(df, col, values) ==
  [cols |-> IF HasCol(df, col) THEN df.cols ELSE Append(df.cols, col),
   rows |-> [i \in 1..Len(df.rows) |->
               [c \in DOMAIN df.rows[i] \cup {col} |->
                  IF c = col THEN values[i] ELSE df.rows[i][c]]]]

\* df.drop(columns=[col])
DropColumn(df, col) ==
  [cols |-> SelectSeq(df.cols, LAMBDA c : c # col),
   rows |-> [i \in 1..Len(df.rows) |->
               [c \in DOMAIN df.rows[i] \ {col} |-> df.rows[i][c]]]]

\* df.reindex(columns=cols): the columns named, in that order; a column the
\* frame lacks is created empty.
Reindex(df, cols, missing) ==
  [cols |-> cols,
   rows |-> [i \in 1..Len(df.rows) |->
               [c \in {cols[k] : k \in 1..Len(cols)} |->
                  get(df.rows[i], c, missing)]]]

Column(df, col) == [i \in 1..Len(df.rows) |-> df.rows[i][col]]

Constant(df, v) == [i \in 1..Len(df.rows) |-> v]

----------------------------------------------------------------------------
(* compute_sla_and_status *)

\* The base date of a row: 'End Date', or 'Posting Date' when that is missing.
base_date(row) ==
  IF isnat(get(row, "End Date", NaT))
  THEN get(row, "Posting Date", NaT)
  ELSE get(row, "End Date", NaT)

days_to_add_unstripped(row) ==
  LET header == str(get(row, "Header Text", <<>>))
  IN  IF startswith(header, <<"S", "-">>) THEN 20
      ELSE IF startswith(header, <<"S", "T", "-">>) THEN 10
      ELSE 10

\* The SLA window of a row, from the prefix of its stripped 'Header Text'.
days_to_add(row) ==
  LET header == strip(str(get(row, "Header Text", <<>>)))
  IN  IF startswith(header, <<"S", "-">>) THEN 20
      ELSE IF startswith(header, <<"S", "T", "-">>) THEN 10
      ELSE 10

sla_date(row, holidays_set) ==
  IF isnat(base_date(row))
  THEN NaT
  ELSE add_business_days(base_date(row), days_to_add(row), holidays_set)

auto_status_overdue_on_due_date(posting_pjum, sla, end_date, ref) ==
  IF ~isnat(posting_pjum)
  THEN IF isnat(sla) THEN "Check SLA"
       ELSE IF posting_pjum >= sla THEN "Telat" ELSE "Tidak Telat"
  ELSE IF ~isnat(end_date) /\ end_date > ref THEN "Kegiatan Belum Berakhir"
       ELSE IF isnat(sla) THEN "Check SLA"
       ELSE IF ref >= sla THEN "Lewat Jatuh Tempo" ELSE "Belum Jatuh Tempo"

auto_status_compares_missing_due_date(posting_pjum, sla, end_date, ref) ==
  IF ~isnat(posting_pjum)
  THEN IF posting_pjum > sla THEN "Telat" ELSE "Tidak Telat"
  ELSE IF ~isnat(end_date) /\ end_date > ref THEN "Kegiatan Belum Berakhir"
       ELSE IF ref > sla THEN "Lewat Jatuh Tempo" ELSE "Belum Jatuh Tempo"

\* The status of one row, from the four values the status loop reads.
auto_status(posting_pjum, sla, end_date, ref) ==
  IF ~isnat(posting_pjum)
  THEN IF isnat(sla) THEN "Check SLA"
       ELSE IF posting_pjum > sla THEN "Telat" ELSE "Tidak Telat"
  ELSE IF ~isnat(end_date) /\ end_date > ref THEN "Kegiatan Belum Berakhir"
       ELSE IF isnat(sla) THEN "Check SLA"
       ELSE IF ref > sla THEN "Lewat Jatuh Tempo" ELSE "Belum Jatuh Tempo"

row_status(row, ref) ==
  auto_status(get(row, "Posting Date PJUM", NaT), get(row, "10HK/20HK", NaT),
              get(row, "End Date", NaT), ref)

ExtraColumns ==
  <<"Posting Date PJUM (awal input)", "Tanggal Input Unit Kerja",
    "Tanggal Rilis Unit Kerja / Masuk Flow Mba Titis / Mas Hari">>

RECURSIVE AddMissingColumns(_, _, _)
AddMissingColumns(df, cols, v) ==
  IF cols = <<>> THEN df
  ELSE AddMissingColumns(
         IF HasCol(df, Head(cols)) THEN df
         ELSE SetColumn(df, Head(cols), Constant(df, v)),
         Tail(cols), v)

\* compute_sla_and_status past its 'Header Text' check.
enrich(df, holidays_set, ref) ==
    LET with_sla == SetColumn(df, "10HK/20HK",
                      [i \in 1..Len(df.rows) |-> sla_date(df.rows[i], holidays_set)])
        with_status == SetColumn(with_sla, "Status",
                      [i \in 1..Len(df.rows) |-> row_status(with_sla.rows[i], ref)])
        with_no == SetColumn(with_status, "Nomor SAP PJUM Pertama Kali",
                      [i \in 1..Len(df.rows) |->
                         get(with_status.rows[i], "Nomor SAP PJUM Pertama Kali", <<>>)])
        with_date == SetColumn(with_no, "Tanggal Masuk GPBN",
                      [i \in 1..Len(df.rows) |->
                         get(with_no.rows[i], "Tanggal Masuk GPBN", NaT)])
        with_extra == AddMissingColumns(with_date, ExtraColumns, NaT)
        with_nodoc == SetColumn(with_extra, "Status No SAP PJUM",
                                Constant(with_extra, ""))
    IN  SetColumn(with_nodoc, "Status Final", Constant(with_nodoc, ""))

compute_sla_and_status_defaulting(df, holidays_set, ref) ==
  enrich(df, holidays_set, ref)

compute_sla_and_status(df, holidays_set, ref) ==
  IF ~HasCol(df, "Header Text") THEN df ELSE enrich(df, holidays_set, ref)

----------------------------------------------------------------------------
(* Specification SpecStatus: the status rule applied to bounded inputs. *)

MaxStatusDate == 3

StatusDates == {NaT} \cup 0..MaxStatusDate

InitStatus ==
  /\ args \in [posting_pjum : StatusDates, sla_date : StatusDates,
               end_date : StatusDates]
  /\ ref_date \in 0..MaxStatusDate
  /\ result = ""
  /\ pc = "call"
  /\ holidays = {}
  /\ report_df = NoTable
  /\ processed = NoTable
  /\ df_for_edit = NoTable
  /\ final_df = NoTable
  /\ diag = FALSE
  /\ applied = FALSE

AutoStatus ==
  /\ pc = "call"
  /\ result' = auto_status(args.posting_pjum, args.sla_date, args.end_date,
                           ref_date)
  /\ pc' = "returned"
  /\ UNCHANGED <<report_df, holidays, ref_date, processed, df_for_edit,
                 final_df, diag, applied, args>>

NextStatus == AutoStatus

SpecStatus == InitStatus /\ [][NextStatus]_vars

\* C1: the automatic status of a record follows the decision table over
\* (PostingDatePJUM, SlaDueDate, EndDate, referenceDate) for every combination
\* of presence and ordering; equality with the due date is on time / not yet
\* overdue.
C1_StatusDecisionTable ==
  pc = "returned" =>
    LET p == args.posting_pjum
        s == args.sla_date
        e == args.end_date
        notEnded == ~isnat(e) /\ e > ref_date
    IN  /\ (~isnat(p) /\ isnat(s)) => result = "Check SLA"
        /\ (~isnat(p) /\ ~isnat(s) /\ p > s) => result = "Telat"
        /\ (~isnat(p) /\ ~isnat(s) /\ p <= s) => result = "Tidak Telat"
        /\ (isnat(p) /\ notEnded) => result = "Kegiatan Belum Berakhir"
        /\ (isnat(p) /\ ~notEnded /\ isnat(s)) => result = "Check SLA"
        /\ (isnat(p) /\ ~notEnded /\ ~isnat(s) /\ ref_date > s)
             => result = "Lewat Jatuh Tempo"
        /\ (isnat(p) /\ ~notEnded /\ ~isnat(s) /\ ref_date <= s)
             => result = "Belum Jatuh Tempo"

C1_Witness ==
  /\ pc = "returned"
  /\ isnat(args.posting_pjum)
  /\ ~isnat(args.end_date)
  /\ args.end_date < ref_date
  /\ args.sla_date = ref_date
  /\ result = "Belum Jatuh Tempo"

----------------------------------------------------------------------------
(* compute_status_after_manual *)

no_doc_status_raw_doc(row) ==
  LET manual_no == strip(str(get(row, "Nomor SAP PJUM Pertama Kali", <<>>)))
      doc_pjum == str(get(row, "Doc SAP PJUM", <<>>))
  IN  IF manual_no = <<>> \/ lower(manual_no) = <<"n", "a", "n">> THEN ""
      ELSE IF manual_no = doc_pjum THEN "No Doc SAP Sama"
      ELSE "No Doc SAP Berbeda"

\* 'Status No SAP PJUM' of one row.
no_doc_status(row) ==
  LET manual_no == strip(str(get(row, "Nomor SAP PJUM Pertama Kali", <<>>)))
      doc_pjum == strip(str(get(row, "Doc SAP PJUM", <<>>)))
  IN  IF manual_no = <<>> \/ lower(manual_no) = <<"n", "a", "n">> THEN ""
      ELSE IF manual_no = doc_pjum THEN "No Doc SAP Sama"
      ELSE "No Doc SAP Berbeda"

\* orig_status if orig_status else ""
or_blank(orig_status) == IF orig_status # "" THEN orig_status ELSE ""

final_status_forces_telat(row) ==
  LET tgl_diterima == get(row, "Tanggal Masuk GPBN", NaT)
      sla == get(row, "10HK/20HK", NaT)
      orig_status == get(row, "Status", "")
  IN  IF ~isnat(tgl_diterima) /\ ~isnat(sla)
      THEN IF tgl_diterima <= sla THEN "Tidak Telat" ELSE "Telat"
      ELSE or_blank(orig_status)

final_status_blank_without_date(row) ==
  LET tgl_diterima == get(row, "Tanggal Masuk GPBN", NaT)
      sla == get(row, "10HK/20HK", NaT)
      orig_status == get(row, "Status", "")
  IN  IF ~isnat(tgl_diterima) /\ ~isnat(sla)
      THEN IF tgl_diterima <= sla THEN "Tidak Telat" ELSE or_blank(orig_status)
      ELSE get(row, "Status Final", "")

\* 'Status Final' of one row.
final_status(row) ==
  LET tgl_diterima == get(row, "Tanggal Masuk GPBN", NaT)
      sla == get(row, "10HK/20HK", NaT)
      orig_status == get(row, "Status", "")
  IN  IF ~isnat(tgl_diterima) /\ ~isnat(sla)
      THEN IF tgl_diterima <= sla THEN "Tidak Telat" ELSE or_blank(orig_status)
      ELSE or_blank(orig_status)

compute_status_after_manual(df) ==
  LET with_nodoc == SetColumn(df, "Status No SAP PJUM",
                      [i \in 1..Len(df.rows) |-> no_doc_status(df.rows[i])])
  IN  SetColumn(with_nodoc, "Status Final",
                [i \in 1..Len(df.rows) |-> final_status(with_nodoc.rows[i])])

----------------------------------------------------------------------------
(* Specification SpecManual: compute_status_after_manual applied to a      *)
(* one-row frame whose dates and status, or whose document numbers, range  *)
(* over bounded sets (the two loops of the function read disjoint columns). *)

MaxManualDate == 2
MaxManualLen == 3
MaxDocLen == 2

ManualDates == {NaT} \cup 0..MaxManualDate

Statuses ==
  {"Check SLA", "Telat", "Tidak Telat", "Kegiatan Belum Berakhir",
   "Lewat Jatuh Tempo", "Belum Jatuh Tempo"}

ManualTexts == {NaN} \cup TextsUpTo({" ", "A", "n", "a", "N"}, MaxManualLen)

DocTexts == {NaN} \cup TextsUpTo({" ", "A", "B"}, MaxDocLen)

ManualColumns ==
  <<"Doc SAP PJUM", "10HK/20HK", "Status", "Nomor SAP PJUM Pertama Kali",
    "Tanggal Masuk GPBN", "Status No SAP PJUM", "Status Final">>

ManualRow(doc, sla, status, manual_no, tgl) ==
  [c \in {ManualColumns[k] : k \in 1..Len(ManualColumns)} |->
     CASE c = "Doc SAP PJUM" -> doc
       [] c = "10HK/20HK" -> sla
       [] c = "Status" -> status
       [] c = "Nomor SAP PJUM Pertama Kali" -> manual_no
       [] c = "Tanggal Masuk GPBN" -> tgl
       [] OTHER -> ""]

InitManual ==
  /\ \/ \E sla \in ManualDates, tgl \in ManualDates, status \in Statuses :
          df_for_edit = [cols |-> ManualColumns,
                         rows |-> <<ManualRow(<<"A">>, sla, status, <<"A">>, tgl)>>]
     \/ \E doc \in DocTexts, manual_no \in ManualTexts :
          df_for_edit = [cols |-> ManualColumns,
                         rows |-> <<ManualRow(doc, 1, "Telat", manual_no, NaT)>>]
  /\ pc = "call"
  /\ args = <<>>
  /\ result = ""
  /\ holidays = {}
  /\ ref_date = NaT
  /\ report_df = NoTable
  /\ processed = NoTable
  /\ final_df = NoTable
  /\ diag = FALSE
  /\ applied = FALSE

ComputeStatusAfterManual ==
  /\ pc = "call"
  /\ df_for_edit' = compute_status_after_manual(df_for_edit)
  /\ pc' = "returned"
  /\ UNCHANGED <<report_df, holidays, ref_date, processed, final_df, diag,
                 applied, args, result>>

NextManual == ComputeStatusAfterManual

SpecManual == InitManual /\ [][NextManual]_vars

\* C2: after the override phase, a record whose ManualReceivedDate and
\* SlaDueDate are both present with ManualReceivedDate <= SlaDueDate has
\* FinalStatus = Tidak Telat whatever its Status; every other record has
\* FinalStatus = Status (the override never forces Telat).
C2_FinalStatusOverride ==
  pc = "returned" =>
    \A i \in 1..Len(df_for_edit.rows) :
      LET r == df_for_edit.rows[i]
          tgl == r["Tanggal Masuk GPBN"]
          sla == r["10HK/20HK"]
      IN  IF ~isnat(tgl) /\ ~isnat(sla) /\ tgl <= sla
          THEN r["Status Final"] = "Tidak Telat"
          ELSE r["Status Final"] = r["Status"]

C2_Witness ==
  /\ pc = "returned"
  /\ \E i \in 1..Len(df_for_edit.rows) :
       LET r == df_for_edit.rows[i]
       IN  /\ r["Status"] = "Telat"
           /\ ~isnat(r["Tanggal Masuk GPBN"])
           /\ r["Tanggal Masuk GPBN"] = r["10HK/20HK"]
           /\ r["Status Final"] = "Tidak Telat"

IsBlankText(t) == isnan(t) \/ strip(t) = <<>>

\* C8 as stated: NoDocStatus is empty for an empty or blank
\* ManualFirstDocNumber, Same when it is non-empty and exactly equal to
\* DocSapPjum, Different for any other non-empty value (DocSapPjum absent
\* included).
C8_ExactMatch ==
  pc = "returned" =>
    \A i \in 1..Len(df_for_edit.rows) :
      LET r == df_for_edit.rows[i]
          m == r["Nomor SAP PJUM Pertama Kali"]
          d == r["Doc SAP PJUM"]
      IN  /\ IsBlankText(m) => r["Status No SAP PJUM"] = ""
          /\ (~IsBlankText(m) /\ ~isnan(d) /\ m = d)
               => r["Status No SAP PJUM"] = "No Doc SAP Sama"
          /\ (~IsBlankText(m) /\ (isnan(d) \/ m # d))
               => r["Status No SAP PJUM"] = "No Doc SAP Berbeda"

IsNanWord(t) ==
  /\ Len(t) = 3
  /\ t[1] \in {"n", "N"}
  /\ t[2] \in {"a", "A"}
  /\ t[3] \in {"n", "N"}

\* C8 amended: with both values trimmed of surrounding whitespace,
\* NoDocStatus is empty when ManualFirstDocNumber is absent, empty or the word
\* "nan" in any letter case; otherwise Same when it equals the trimmed
\* DocSapPjum and Different when it does not (an absent DocSapPjum never
\* matches).
C8_TrimmedMatch ==
  pc = "returned" =>
    \A i \in 1..Len(df_for_edit.rows) :
      LET r == df_for_edit.rows[i]
          m == r["Nomor SAP PJUM Pertama Kali"]
          d == r["Doc SAP PJUM"]
          mt == IF isnan(m) THEN <<>> ELSE strip(m)
          empty == mt = <<>> \/ IsNanWord(mt)
          same == ~isnan(d) /\ mt = strip(d)
      IN  /\ empty => r["Status No SAP PJUM"] = ""
          /\ (~empty /\ same) => r["Status No SAP PJUM"] = "No Doc SAP Sama"
          /\ (~empty /\ ~same) => r["Status No SAP PJUM"] = "No Doc SAP Berbeda"

C8_Witness ==
  /\ pc = "returned"
  /\ \E i \in 1..Len(df_for_edit.rows) :
       LET r == df_for_edit.rows[i]
       IN  /\ r["Nomor SAP PJUM Pertama Kali"] = <<"A", " ">>
           /\ r["Doc SAP PJUM"] = <<" ", "A">>
           /\ r["Status No SAP PJUM"] = "No Doc SAP Sama"

----------------------------------------------------------------------------
(* Specification SpecBiz: add_business_days applied to bounded inputs. *)

MaxStart == 6
MaxAdd == 3
MaxHoliday == 7

InitBiz ==
  /\ args \in [start_date : {NaT} \cup 0..MaxStart, add_days : 0..MaxAdd]
  /\ holidays \in SUBSET (0..MaxHoliday)
  /\ result = NaT
  /\ pc = "call"
  /\ ref_date = NaT
  /\ report_df = NoTable
  /\ processed = NoTable
  /\ df_for_edit = NoTable
  /\ final_df = NoTable
  /\ diag = FALSE
  /\ applied = FALSE

AddBusinessDays ==
  /\ pc = "call"
  /\ result' = add_business_days(args.start_date, args.add_days, holidays)
  /\ pc' = "returned"
  /\ UNCHANGED <<report_df, holidays, ref_date, processed, df_for_edit,
                 final_df, diag, applied, args>>

NextBiz == AddBusinessDays

SpecBiz == InitBiz /\ [][NextBiz]_vars

IsBusinessDay(d, holidays_set) == weekday(d) < 5 /\ d \notin holidays_set

\* C5 as stated: for every present start and every n >= 0 the returned date
\* is never a Saturday, a Sunday or a holiday.
C5_AnyN_ResultIsBusinessDay ==
  (pc = "returned" /\ ~isnat(args.start_date))
    => IsBusinessDay(result, holidays)

\* C5 amended: for every present start and every n >= 1 the returned date is
\* never a Saturday, a Sunday or a holiday (for n = 0 the start is returned
\* as it is, business day or not).
C5_ResultIsBusinessDay ==
  (pc = "returned" /\ ~isnat(args.start_date) /\ args.add_days >= 1)
    => IsBusinessDay(result, holidays)

C5_Witness ==
  /\ pc = "returned"
  /\ args.add_days >= 1
  /\ ~isnat(args.start_date)
  /\ (args.start_date + 1) \in holidays
  /\ weekday(args.start_date + 2) >= 5
  /\ result > args.start_date + 2

\* C6: the result is the n-th business day strictly after the start: the
\* interval (start, result] holds exactly n business days, the result is one
\* of them when n >= 1, the start is never counted, n = 0 returns the start,
\* and an absent start gives an absent result.
C6_NthBusinessDayAfterStart ==
  pc = "returned" =>
    IF isnat(args.start_date)
    THEN isnat(result)
    ELSE /\ result >= args.start_date
         /\ Cardinality({d \in (args.start_date + 1)..result :
                           IsBusinessDay(d, holidays)}) = args.add_days
         /\ (args.add_days >= 1 => IsBusinessDay(result, holidays))
         /\ (args.add_days = 0 => result = args.start_date)

C6_Witness ==
  /\ pc = "returned"
  /\ args.add_days = 2
  /\ IsBusinessDay(args.start_date, holidays)
  /\ ~isnat(args.start_date)
  /\ result > args.start_date + 2

----------------------------------------------------------------------------
(* The script: one run from the standardized upload to the final frame.    *)

merge_keys == <<"Assignment", "Doc SAP", "Header Text", "Personal Number", "Name">>

HasCols(df, cols) == \A k \in 1..Len(cols) : HasCol(df, cols[k])

\* Series.combine_first: the left value unless it is missing.
combine_first_nat(left, right) == IF isnat(left) THEN right ELSE left

combine_first_nan(left, right) == IF isnan(left) THEN right ELSE left

\* Lines 312: the automatic phase over the uploaded report.
ComputeSlaAndStatus ==
  /\ pc = "uploaded"
  /\ processed' = compute_sla_and_status(report_df, holidays, ref_date)
  /\ diag' = ~HasCol(report_df, "Header Text")
  /\ pc' = "processed"
  /\ UNCHANGED <<report_df, holidays, ref_date, df_for_edit, final_df,
                 applied, args, result>>

DbNumbers == {NaN, <<"A">>}

DbDates == {NaT, 14}

\* Lines 317-344: the left merge with the database sheet; db gives, for each
\* row, the manual number and received date of the database row with the same
\* keys (missing values when there is none).  The three pass-through date
\* columns of the database are taken to be empty.
MergeDatabase ==
  /\ pc = "processed"
  /\ HasCols(processed, merge_keys)
  /\ \E db \in [1..Len(processed.rows) -> [no : DbNumbers, tgl : DbDates]] :
       LET with_no == SetColumn(processed, "Nomor SAP PJUM Pertama Kali",
                        [i \in 1..Len(processed.rows) |->
                           combine_first_nan(
                             processed.rows[i]["Nomor SAP PJUM Pertama Kali"],
                             db[i].no)])
       IN  processed' = SetColumn(with_no, "Tanggal Masuk GPBN",
                          [i \in 1..Len(processed.rows) |->
                             combine_first_nat(
                               with_no.rows[i]["Tanggal Masuk GPBN"], db[i].tgl)])
  /\ pc' = "merged"
  /\ UNCHANGED <<report_df, holidays, ref_date, df_for_edit, final_df, diag,
                 applied, args, result>>

\* Lines 345-346: the sheet cannot be read, or a merge key is missing: the
\* exception is caught and processed is kept.
MergeFails ==
  /\ pc = "processed"
  /\ pc' = "merged"
  /\ UNCHANGED <<report_df, holidays, ref_date, processed, df_for_edit,
                 final_df, diag, applied, args, result>>

\* Line 360 on a frame without a 'Status' column: KeyError ends the run.
StatusKeyError ==
  /\ pc = "merged"
  /\ ~HasCol(processed, "Status")
  /\ pc' = "crashed"
  /\ UNCHANGED <<report_df, holidays, ref_date, processed, df_for_edit,
                 final_df, diag, applied, args, result>>

TelatRows(df) == {i \in 1..Len(df.rows) : df.rows[i]["Status"] = "Telat"}

EditNumbers == {<<>>, <<"A">>, <<"B">>}

EditDates == {NaT, 14, 15}

\* set_index("Assignment") ... reset_index(): 'Assignment' becomes the first
\* column.
reset_index(df) ==
  [cols |-> <<"Assignment">> \o SelectSeq(df.cols, LAMBDA c : c # "Assignment"),
   rows |-> df.rows]

\* parse_date on a cell of the editor's date column: a Timestamp (or NaT),
\* normalized to midnight.
parse_date_timestamp(value) == IF isnat(value) THEN NaT ELSE value

\* Lines 357-405 with the button pressed: the editor's values of the two
\* manual columns are written to the Telat rows (by 'Assignment' or, without
\* that column, by position), the dates are parsed and the override phase
\* runs over the whole frame.
ApplyManualChanges ==
  /\ pc = "merged"
  /\ HasCol(processed, "Status")
  /\ TelatRows(processed) # {}
  /\ \E edited \in [TelatRows(processed) -> [no : EditNumbers, tgl : EditDates]] :
       LET written ==
             [cols |-> processed.cols,
              rows |-> [i \in 1..Len(processed.rows) |->
                 IF i \in TelatRows(processed)
                 THEN [processed.rows[i] EXCEPT
                         !["Nomor SAP PJUM Pertama Kali"] = edited[i].no,
                         !["Tanggal Masuk GPBN"] = edited[i].tgl]
                 ELSE processed.rows[i]]]
           indexed == IF HasCol(written, "Assignment")
                      THEN reset_index(written) ELSE written
           parsed == SetColumn(indexed, "Tanggal Masuk GPBN",
                       [i \in 1..Len(indexed.rows) |->
                          parse_date_timestamp(indexed.rows[i]["Tanggal Masuk GPBN"])])
       IN  df_for_edit' = compute_status_after_manual(parsed)
  /\ applied' = TRUE
  /\ pc' = "edited"
  /\ UNCHANGED <<report_df, holidays, ref_date, processed, final_df, diag,
                 args, result>>

\* Lines 357-386 with the button not pressed, or with no Telat row.
NoManualChanges ==
  /\ pc = "merged"
  /\ HasCol(processed, "Status")
  /\ df_for_edit' = processed
  /\ applied' = FALSE
  /\ pc' = "edited"
  /\ UNCHANGED <<report_df, holidays, ref_date, processed, final_df, diag,
                 args, result>>

append_order_final_first ==
  <<"10HK/20HK", "Status Final", "Status", "Nomor SAP PJUM Pertama Kali",
    "Tanggal Masuk GPBN"
   >> \o ExtraColumns \o <<"Status No SAP PJUM">>

append_order ==
  <<"10HK/20HK", "Status", "Nomor SAP PJUM Pertama Kali", "Tanggal Masuk GPBN"
   >> \o ExtraColumns \o <<"Status No SAP PJUM", "Status Final">>

\* The columns whose name holds 'Date' or 'Tanggal'.
date_cols ==
  {"Posting Date", "End Date", "Posting Date PJUM", "Tanggal Masuk GPBN",
   "Posting Date PJUM (awal input)", "Tanggal Input Unit Kerja",
   "Tanggal Rilis Unit Kerja / Masuk Flow Mba Titis / Mas Hari"}

\* Series.dt.strftime("%d/%m/%y"): the date as text (kept abstract: the text
\* that renders day d), a missing date as a missing text.
strftime(d) == IF isnat(d) THEN NaN ELSE <<"%d/%m/%y", d>>

\* Lines 419-449: drop 'Status' when some 'Status Final' is filled and
\* 'Status Final' otherwise, order the columns, render the dates.
final_frame(df, orig_cols) ==
  LET any_final == \E i \in 1..Len(df.rows) : df.rows[i]["Status Final"] # ""
      dropped == IF any_final THEN DropColumn(df, "Status")
                 ELSE DropColumn(df, "Status Final")
      cols_to_keep == orig_cols \o
                      SelectSeq(append_order, LAMBDA c : HasCol(dropped, c))
      ordered == Reindex(dropped, cols_to_keep, NaN)
  IN  [cols |-> ordered.cols,
       rows |-> [i \in 1..Len(ordered.rows) |->
                   [c \in DOMAIN ordered.rows[i] |->
                      IF c \in date_cols THEN strftime(ordered.rows[i][c])
                      ELSE ordered.rows[i][c]]]]

FinalizeColumns ==
  /\ pc = "edited"
  /\ final_df' = final_frame(df_for_edit, report_df.cols)
  /\ pc' = "shown"
  /\ UNCHANGED <<report_df, holidays, ref_date, processed, df_for_edit, diag,
                 applied, args, result>>

AppRefDates == {14, 15}

\* Any interaction reruns the script from the top, on the same upload, with
\* the reference date of the widget.
Rerun ==
  /\ pc \in {"shown", "crashed"}
  /\ ref_date' \in AppRefDates
  /\ processed' = NoTable
  /\ df_for_edit' = NoTable
  /\ final_df' = NoTable
  /\ diag' = FALSE
  /\ applied' = FALSE
  /\ pc' = "uploaded"
  /\ UNCHANGED <<report_df, holidays, args, result>>

----------------------------------------------------------------------------
(* Specification Spec: the script over a bounded upload. *)

NumRows == 2

InputColumns ==
  <<"Assignment", "Doc SAP", "Header Text", "Personal Number", "Name",
    "Posting Date", "End Date", "Posting Date PJUM", "Doc SAP PJUM">>

Reverse(s) == [k \in 1..Len(s) |-> s[Len(s) + 1 - k]]

Without(s, col) == SelectSeq(s, LAMBDA c : c # col)

Layouts ==
  {InputColumns, Reverse(InputColumns), Without(InputColumns, "Header Text"),
   Without(Reverse(InputColumns), "Assignment")}

AppHeaders == {<<"S", "-">>, <<>>}

AppEndDates == {NaT, 0}

AppPjumDates == {NaT, 14, 15}

AppHolidaySets == {{}, {1}}

InputRow(cols, id, header, end_date, pjum) ==
  [c \in {cols[k] : k \in 1..Len(cols)} |->
     CASE c = "Assignment" -> <<"#", id>>
       [] c = "Header Text" -> header
       [] c = "Posting Date" -> NaT
       [] c = "End Date" -> end_date
       [] c = "Posting Date PJUM" -> pjum
       [] OTHER -> <<"A">>]

Init ==
  /\ \E cols \in Layouts :
     \E cells \in [1..NumRows ->
                     [header : AppHeaders, end_date : AppEndDates,
                      pjum : AppPjumDates]] :
       report_df = [cols |-> cols,
                    rows |-> [i \in 1..NumRows |->
                                InputRow(cols, i, cells[i].header,
                                         cells[i].end_date, cells[i].pjum)]]
  /\ holidays \in AppHolidaySets
  /\ ref_date \in AppRefDates
  /\ processed = NoTable
  /\ df_for_edit = NoTable
  /\ final_df = NoTable
  /\ diag = FALSE
  /\ applied = FALSE
  /\ pc = "uploaded"
  /\ args = <<>>
  /\ result = ""

Next ==
  \/ ComputeSlaAndStatus
  \/ MergeDatabase
  \/ MergeFails
  \/ StatusKeyError
  \/ ApplyManualChanges
  \/ NoManualChanges
  \/ FinalizeColumns
  \/ Rerun

Spec == Init /\ [][Next]_vars

DerivedColumns == append_order

\* The frame the script is working on at each position.
CurrentFrame == IF pc \in {"processed", "merged"} THEN processed ELSE df_for_edit

AfterAutomaticPhase ==
  /\ pc \in {"processed", "merged", "edited", "shown"}
  /\ HasCol(CurrentFrame, "Status")

BothDatesPresent(r) ==
  ~isnat(r["Tanggal Masuk GPBN"]) /\ ~isnat(r["10HK/20HK"])

\* C3 as stated: in every state from the end of the automatic phase onward,
\* each record's FinalStatus equals its Status unless both ManualReceivedDate
\* and SlaDueDate are present.
C3_FinalStatusAlwaysCopiesStatus ==
  AfterAutomaticPhase =>
    \A i \in 1..Len(CurrentFrame.rows) :
      LET r == CurrentFrame.rows[i]
      IN  ~BothDatesPresent(r) => r["Status Final"] = r["Status"]

OverrideHasRun == applied /\ pc \in {"edited", "shown"}

\* C3 amended: from the end of the automatic phase until the override phase
\* runs in that script run (a database merge does not run it), every record's
\* FinalStatus is blank; once the override phase has run, each record's
\* FinalStatus equals its Status unless both ManualReceivedDate and SlaDueDate
\* are present.
C3_FinalStatusBlankThenCopiesStatus ==
  AfterAutomaticPhase =>
    \A i \in 1..Len(CurrentFrame.rows) :
      LET r == CurrentFrame.rows[i]
      IN  IF OverrideHasRun
          THEN ~BothDatesPresent(r) => r["Status Final"] = r["Status"]
          ELSE r["Status Final"] = ""

C3_Witness ==
  /\ OverrideHasRun
  /\ \E i \in 1..Len(df_for_edit.rows) :
       LET r == df_for_edit.rows[i]
       IN  /\ isnat(r["Tanggal Masuk GPBN"])
           /\ ~isnat(r["10HK/20HK"])
           /\ r["Status"] = "Tidak Telat"
           /\ r["Status Final"] = "Tidak Telat"
  /\ \E i \in 1..Len(df_for_edit.rows) :
       BothDatesPresent(df_for_edit.rows[i])

ManualFieldsChanged(r) ==
  r["Nomor SAP PJUM Pertama Kali"] # <<>> \/ ~isnat(r["Tanggal Masuk GPBN"])

\* C4: every change to a record's manual fields, whatever supplied it, is
\* followed by a run of the override phase, so the frame shown and exported
\* carries for that record the NoDocStatus and FinalStatus the override rules
\* give for its current manual fields.
C4_ManualChangeIsRecomputed ==
  pc = "shown" =>
    \A i \in 1..Len(df_for_edit.rows) :
      LET r == df_for_edit.rows[i]
          shown == final_df.rows[i]
      IN  ManualFieldsChanged(r) =>
            /\ "Status No SAP PJUM" \in DOMAIN shown
            /\ shown["Status No SAP PJUM"] = no_doc_status(r)
            /\ "Status Final" \in DOMAIN shown
            /\ shown["Status Final"] = final_status(r)

\* C9 as stated: the frame shown consists of the input columns in their order
\* followed by SlaDueDate, Status, ManualFirstDocNumber, ManualReceivedDate,
\* NoDocStatus, FinalStatus, whether or not the override phase has run.
C9_InputThenSixDerivedColumns ==
  pc = "shown" =>
    final_df.cols = report_df.cols \o
      <<"10HK/20HK", "Status", "Nomor SAP PJUM Pertama Kali",
        "Tanggal Masuk GPBN", "Status No SAP PJUM", "Status Final">>

\* C9 amended: the frame shown consists of the input columns in their order
\* followed by SlaDueDate, Status, ManualFirstDocNumber, ManualReceivedDate,
\* the three pass-through date columns, NoDocStatus, FinalStatus in that fixed
\* sequence, with exactly one of Status and FinalStatus: FinalStatus alone
\* when the override phase has run, Status alone when it has not.
C9_InputThenDerivedColumnsOneStatus ==
  pc = "shown" =>
    final_df.cols = report_df.cols \o <<"10HK/20HK">>
      \o (IF applied THEN <<>> ELSE <<"Status">>)
      \o <<"Nomor SAP PJUM Pertama Kali", "Tanggal Masuk GPBN",
           "Posting Date PJUM (awal input)", "Tanggal Input Unit Kerja",
           "Tanggal Rilis Unit Kerja / Masuk Flow Mba Titis / Mas Hari",
           "Status No SAP PJUM">>
      \o (IF applied THEN <<"Status Final">> ELSE <<>>)

C9_Witness ==
  /\ pc = "shown"
  /\ applied
  /\ report_df.cols = Reverse(InputColumns)
  /\ df_for_edit.cols[1] = "Assignment"
  /\ HasCol(final_df, "Status Final")

\* C10: without a 'Header Text' column compute_sla_and_status reports the
\* error and returns the input frame, no derived column written for any
\* record; with the column, no record is rejected: every record, whatever its
\* category text or dates, gets its due date and one of the six statuses.
C10_RejectsOnlyMissingCategoryColumn ==
  pc = "processed" =>
    IF ~HasCol(report_df, "Header Text")
    THEN /\ diag
         /\ processed = report_df
         /\ \A k \in 1..Len(DerivedColumns) :
              ~HasCol(processed, DerivedColumns[k])
    ELSE /\ ~diag
         /\ Len(processed.rows) = Len(report_df.rows)
         /\ HasCols(processed, DerivedColumns)
         /\ \A i \in 1..Len(processed.rows) :
              /\ processed.rows[i]["Status"] \in Statuses
              /\ isnat(processed.rows[i]["10HK/20HK"])
                   <=> (isnat(report_df.rows[i]["End Date"])
                        /\ isnat(report_df.rows[i]["Posting Date"]))
              /\ processed.rows[i]["Status No SAP PJUM"] = ""
              /\ processed.rows[i]["Status Final"] = ""

C10_Witness ==
  /\ pc = "processed"
  /\ diag
  /\ \E i \in 1..Len(processed.rows) : ~isnat(processed.rows[i]["End Date"])
  /\ \E i \in 1..Len(processed.rows) : isnat(processed.rows[i]["End Date"])

----------------------------------------------------------------------------
(* Specification SpecSla: the automatic phase over a one-row report whose   *)
(* category text, dates and holidays range over bounded sets.              *)

MaxHeaderLen == 3
MaxSlaDate == 1
MaxSlaHoliday == 2

SlaHeaders == {NaN} \cup TextsUpTo({" ", "S", "T", "-"}, MaxHeaderLen)

SlaDates == {NaT} \cup 0..MaxSlaDate

SlaColumns == <<"Header Text", "Posting Date", "End Date", "Posting Date PJUM">>

InitSla ==
  /\ \E header \in SlaHeaders, posting \in SlaDates, end_date \in SlaDates,
        pjum \in SlaDates :
       report_df = [cols |-> SlaColumns,
                    rows |-> <<[c \in {SlaColumns[k] : k \in 1..Len(SlaColumns)} |->
                                  CASE c = "Header Text" -> header
                                    [] c = "Posting Date" -> posting
                                    [] c = "End Date" -> end_date
                                    [] OTHER -> pjum]>>]
  /\ holidays \in SUBSET (1..MaxSlaHoliday)
  /\ ref_date \in 0..MaxSlaDate
  /\ processed = NoTable
  /\ df_for_edit = NoTable
  /\ final_df = NoTable
  /\ diag = FALSE
  /\ applied = FALSE
  /\ pc = "uploaded"
  /\ args = <<>>
  /\ result = ""

NextSla == ComputeSlaAndStatus

SpecSla == InitSla /\ [][NextSla]_vars

ClaimedBase(row) ==
  IF ~isnat(row["End Date"]) THEN row["End Date"] ELSE row["Posting Date"]

\* C7 as stated: the due date is present iff EndDate or PostingDate is, and
\* then equals add_business_days(base, w, holidays), base being EndDate when
\* present and PostingDate otherwise, w being 20 exactly when the category
\* text starts with "S-" and 10 otherwise.
C7_DueDateFromRawPrefix ==
  pc = "processed" =>
    \A i \in 1..Len(processed.rows) :
      LET in == report_df.rows[i]
          due == processed.rows[i]["10HK/20HK"]
          header == in["Header Text"]
          w == IF ~isnan(header) /\ startswith(header, <<"S", "-">>)
               THEN 20 ELSE 10
      IN  /\ ~isnat(due) <=> (~isnat(in["End Date"]) \/ ~isnat(in["Posting Date"]))
          /\ ~isnat(due) => due = add_business_days(ClaimedBase(in), w, holidays)

\* C7 amended: as stated, with w being 20 exactly when the category text with
\* its surrounding whitespace removed starts with "S-".
C7_DueDateFromTrimmedPrefix ==
  pc = "processed" =>
    \A i \in 1..Len(processed.rows) :
      LET in == report_df.rows[i]
          due == processed.rows[i]["10HK/20HK"]
          header == in["Header Text"]
          w == IF ~isnan(header) /\ startswith(strip(header), <<"S", "-">>)
               THEN 20 ELSE 10
      IN  /\ ~isnat(due) <=> (~isnat(in["End Date"]) \/ ~isnat(in["Posting Date"]))
          /\ ~isnat(due) => due = add_business_days(ClaimedBase(in), w, holidays)

C7_Witness ==
  /\ pc = "processed"
  /\ \E i \in 1..Len(processed.rows) :
       /\ report_df.rows[i]["Header Text"] = <<"S", "-", "T">>
       /\ report_df.rows[i]["End Date"] = 1
       /\ report_df.rows[i]["Posting Date"] = 0
       /\ holidays = {2}
       /\ processed.rows[i]["10HK/20HK"] = 30

\* C12: with the due-date step and the status step composed, a record's
\* Status is Check SLA if and only if its SlaDueDate is absent, which is if and
\* only if EndDate and PostingDate are both absent; and a record with Status
\* Kegiatan Belum Berakhir has a present SlaDueDate strictly after the
\* reference date.
C12_CheckSlaIffNoDueDate ==
  pc = "processed" =>
    \A i \in 1..Len(processed.rows) :
      LET in == report_df.rows[i]
          out == processed.rows[i]
      IN  /\ out["Status"] = "Check SLA" <=> isnat(out["10HK/20HK"])
          /\ isnat(out["10HK/20HK"])
               <=> (isnat(in["End Date"]) /\ isnat(in["Posting Date"]))
          /\ out["Status"] = "Kegiatan Belum Berakhir"
               => (~isnat(out["10HK/20HK"]) /\ out["10HK/20HK"] > ref_date)

C12_Witness ==
  /\ pc = "processed"
  /\ \E i \in 1..Len(processed.rows) :
       /\ processed.rows[i]["Status"] = "Kegiatan Belum Berakhir"
       /\ processed.rows[i]["10HK/20HK"] > ref_date
       /\ ~isnat(report_df.rows[i]["Posting Date"])
  /\ ref_date = 0

C12_WitnessCheckSla ==
  /\ pc = "processed"
  /\ \E i \in 1..Len(processed.rows) :
       /\ processed.rows[i]["Status"] = "Check SLA"
       /\ ~isnat(report_df.rows[i]["Posting Date PJUM"])
       /\ isnat(processed.rows[i]["10HK/20HK"])

----------------------------------------------------------------------------
(* parse_date on text.  A calendar date is here [year, month, day]; a text  *)
(* is a sequence of one-character strings, as above.                       *)

\* pd.NaT as a parsed calendar date, and strptime's ValueError.
NoDate == [year |-> 0, month |-> 0, day |-> 0]

Digits == <<"0", "1", "2", "3", "4", "5", "6", "7", "8", "9">>

is_digit(c) == \E k \in 1..Len(Digits) : Digits[k] = c

digit_val(c) == CHOOSE k \in 0..9 : Digits[k + 1] = c

\* int(field) of a digit string.
RECURSIVE int_of(_)
int_of(field) ==
  IF field = <<>> THEN 0
  ELSE 10 * int_of(SubSeq(field, 1, Len(field) - 1)) + digit_val(field[Len(field)])

is_leap(year) == (year % 4 = 0 /\ year % 100 # 0) \/ year % 400 = 0

days_in_month(year, month) ==
  IF month = 2 THEN (IF is_leap(year) THEN 29 ELSE 28)
  ELSE IF month \in {4, 6, 9, 11} THEN 30 ELSE 31

formats_month_first ==
  <<[sep |-> "/", fields |-> <<"m", "d", "Y">>],
    [sep |-> "/", fields |-> <<"d", "m", "Y">>],
    [sep |-> "/", fields |-> <<"d", "m", "y">>],
    [sep |-> "-", fields |-> <<"d", "m", "Y">>],
    [sep |-> "-", fields |-> <<"d", "m", "y">>],
    [sep |-> "-", fields |-> <<"Y", "m", "d">>]>>

\* The formats parse_date tries, in its order: "%d/%m/%Y", "%d/%m/%y",
\* "%d-%m-%Y", "%d-%m-%y", "%Y-%m-%d", "%m/%d/%Y".
formats ==
  <<[sep |-> "/", fields |-> <<"d", "m", "Y">>],
    [sep |-> "/", fields |-> <<"d", "m", "y">>],
    [sep |-> "-", fields |-> <<"d", "m", "Y">>],
    [sep |-> "-", fields |-> <<"d", "m", "y">>],
    [sep |-> "-", fields |-> <<"Y", "m", "d">>],
    [sep |-> "/", fields |-> <<"m", "d", "Y">>]>>

\* The three parts of text around its two separators, or <<>> when it does
\* not hold exactly two.
split_fields(text, sep) ==
  LET at == {i \in 1..Len(text) : text[i] = sep}
  IN  IF Cardinality(at) # 2 THEN <<>>
      ELSE LET i == CHOOSE x \in at : \A y \in at : x <= y
               j == CHOOSE x \in at : \A y \in at : x >= y
           IN  <<SubSeq(text, 1, i - 1), SubSeq(text, i + 1, j - 1),
                 SubSeq(text, j + 1, Len(text))>>

\* A directive of strptime matching a whole field: %d and %m take one or two
\* digits in range, %Y four digits, %y two.
directive_matches(directive, field) ==
  /\ field # <<>>
  /\ \A k \in 1..Len(field) : is_digit(field[k])
  /\ CASE directive = "d" -> Len(field) <= 2 /\ int_of(field) \in 1..31
       [] directive = "m" -> Len(field) <= 2 /\ int_of(field) \in 1..12
       [] directive = "Y" -> Len(field) = 4
       [] OTHER -> Len(field) = 2

\* The value of a matched field; a two-digit year is read as 1969..2068.
directive_value(directive, field) ==
  IF directive = "y"
  THEN (IF int_of(field) <= 68 THEN 2000 + int_of(field) ELSE 1900 + int_of(field))
  ELSE int_of(field)

\* datetime.strptime(text, fmt): the date, or NoDate for ValueError.
strptime(text, fmt) ==
  LET parts == split_fields(text, fmt.sep)
  IN  IF parts = <<>> THEN NoDate
      ELSE IF \E k \in 1..3 : ~directive_matches(fmt.fields[k], parts[k])
      THEN NoDate
      ELSE LET val(directive) ==
                 directive_value(directive,
                   parts[CHOOSE k \in 1..3 : fmt.fields[k] = directive])
               year == IF \E k \in 1..3 : fmt.fields[k] = "Y"
                       THEN val("Y") ELSE val("y")
           IN  IF year >= 1 /\ val("d") <= days_in_month(year, val("m"))
               THEN [year |-> year, month |-> val("m"), day |-> val("d")]
               ELSE NoDate

\* pd.to_datetime(text, dayfirst=True, errors="coerce"): pandas' inference is
\* not modelled; it is reached only by text none of the six formats accepts.
to_datetime_dayfirst(text) == NoDate

\* The loop over the formats, from the k-th on.
RECURSIVE try_formats(_, _)
try_formats(text, k) ==
  IF k > Len(formats) THEN to_datetime_dayfirst(text)
  ELSE IF strptime(text, formats[k]) # NoDate THEN strptime(text, formats[k])
  ELSE try_formats(text, k + 1)

\* parse_date on a text cell.
parse_date(value) ==
  IF isnan(value) THEN NoDate ELSE try_formats(strip(str(value)), 1)

----------------------------------------------------------------------------
(* Specification SpecParse: parse_date applied to a calendar date rendered  *)
(* in one of the six formats.                                              *)

\* Years on both sides of the two-digit-year window, one of them a leap year.
ParseYears == {1968, 1969, 2024, 2068, 2069}

CalendarDates ==
  {d \in [year : ParseYears, month : 1..12, day : 1..31] :
     d.day <= days_in_month(d.year, d.month)}

RECURSIVE zero_padded(_, _)
zero_padded(n, width) ==
  IF width = 0 THEN <<>>
  ELSE Append(zero_padded(n \div 10, width - 1), Digits[(n % 10) + 1])

rendered_field(d, directive) ==
  CASE directive = "d" -> zero_padded(d.day, 2)
    [] directive = "m" -> zero_padded(d.month, 2)
    [] directive = "Y" -> zero_padded(d.year, 4)
    [] OTHER -> zero_padded(d.year % 100, 2)

\* strftime of d in a format.
render(d, fmt) ==
  rendered_field(d, fmt.fields[1]) \o <<fmt.sep>> \o
  rendered_field(d, fmt.fields[2]) \o <<fmt.sep>> \o
  rendered_field(d, fmt.fields[3])

\* The six accepted formats, as the claim numbers them.
AcceptedFormats ==
  <<[sep |-> "/", fields |-> <<"d", "m", "Y">>],
    [sep |-> "/", fields |-> <<"d", "m", "y">>],
    [sep |-> "-", fields |-> <<"d", "m", "Y">>],
    [sep |-> "-", fields |-> <<"d", "m", "y">>],
    [sep |-> "-", fields |-> <<"Y", "m", "d">>],
    [sep |-> "/", fields |-> <<"m", "d", "Y">>]>>

InitParse ==
  /\ \E d \in CalendarDates, f \in 1..Len(AcceptedFormats) :
       args = [date |-> d, format |-> f, text |-> render(d, AcceptedFormats[f])]
  /\ result = NoDate
  /\ pc = "call"
  /\ holidays = {}
  /\ ref_date = NaT
  /\ report_df = NoTable
  /\ processed = NoTable
  /\ df_for_edit = NoTable
  /\ final_df = NoTable
  /\ diag = FALSE
  /\ applied = FALSE

ParseDate ==
  /\ pc = "call"
  /\ result' = parse_date(args.text)
  /\ pc' = "returned"
  /\ UNCHANGED <<report_df, holidays, ref_date, processed, df_for_edit,
                 final_df, diag, applied, args>>

NextParse == ParseDate

SpecParse == InitParse /\ [][NextParse]_vars

\* C11 as stated: for every calendar date d and each of the six accepted
\* formats, parse_date of d rendered in that format returns d.
C11_RoundTripEveryFormat ==
  pc = "returned" => result = args.date

\* C11 amended: parse_date of d rendered in a format returns d for D/M/Y and
\* D-M-Y with a 4-digit year and for Y-M-D; for the 2-digit-year formats it
\* returns the date of 1969..2068 with the same day, month and last two year
\* digits, which is d exactly when d lies in those years; for M/D/Y it returns
\* d when the day is above 12, and otherwise the date with day and month
\* exchanged (the earlier D/M/Y format wins), which is d only when day = month.
C11_RoundTripWhereUnambiguous ==
  pc = "returned" =>
    LET d == args.date
        yy == d.year % 100
    IN  CASE args.format \in {1, 3, 5} -> result = d
          [] args.format \in {2, 4} ->
               /\ result = [d EXCEPT !.year = IF yy <= 68 THEN 2000 + yy
                                               ELSE 1900 + yy]
               /\ (d.year \in 1969..2068 => result = d)
          [] OTHER ->
               IF d.day > 12 THEN result = d
               ELSE result = [d EXCEPT !.day = d.month, !.month = d.day]

C11_Witness ==
  /\ pc = "returned"
  /\ args.format = 6
  /\ args.date = [year |-> 2024, month |-> 3, day |-> 4]
  /\ args.text = <<"0", "3", "/", "0", "4", "/", "2", "0", "2", "4">>
  /\ result = [year |-> 2024, month |-> 4, day |-> 3]

====
